---- MODULE Spec2Model ----
(***************************************************************************)
(* Car price prediction service (models/model_app.py, models/index.py)    *)
(* and the per-make training scripts (scripts/train-model.py,             *)
(* scripts/train_model.py).                                               *)
(*                                                                         *)
(* Serving: Flask handles each POST /models/predict on its own thread;    *)
(* the threads share the module-level dict models_cache and nothing else. *)
(* A handler is cut into steps at every access to models_cache or to the  *)
(* remote storage; the code between two accesses is local to the thread   *)
(* and belongs to the step that follows it.                               *)
(***************************************************************************)
EXTENDS Integers, Sequences, FiniteSets, TLC

\* ------------------------------------------------------------------ bounds
MaxRun == 2              \* training runs whose artifacts reach remote storage
MaxCatalog == 2          \* rows of the all_makes table

Threads == {"t1", "t2"}   \* the request threads
Makes == {"Porsche", "Ferrari"}
Apps == {"model_app", "index"}

\* Python's None, and the value data.get() yields for a missing key.
None == "None"

VARIABLES
    app,           \* which serving module runs: model_app.py or index.py
    storage,       \* remote bucket "models": make -> run whose artifacts are stored, 0 = none
    models_cache,  \* the global dict: a function whose DOMAIN is the dict's keys
    pc,            \* per thread: position in predict()
    req,           \* per thread: the request being handled
    loaded,        \* per thread: the dict load_models_for_make is building / returned
    got,           \* per thread: carmodel, labels_color, labels_model, labels_transmission
    resp,          \* per thread: the response returned
    hit,           \* observer, per thread: line 73 found the make in models_cache
    cold_price     \* observer, per make: the first prediction returned by a request that loaded (0 = none yet)

\* The training script, one sequential process.
VARIABLES
    script,             \* which script runs: train-model.py or train_model.py
    arg_make,           \* args.make (None when --make is not given, "" for an empty value)
    makes,              \* what get_makes() returned
    idx,                \* position of the for loop in makes (1-based)
    tpc,                \* position in main()
    response,           \* rows the bat_completed_auctions query returned for the make in hand
    df_len,             \* len(df) after fetch_data
    score,              \* train score of the make in hand, in hundredths
    params,             \* best_params_ of the make in hand
    outcome,            \* what main() printed for the make in hand
    wrote,              \* what this iteration has written so far
    prediction_models,  \* the metadata table: a set of rows
    files,              \* ../models/{make}: make -> names of the files in it
    archive,            \* make -> names of the entries of ../models/{make}/model.zip
    attempted,          \* the makes fetch_data has been called for, in call order
    X_cols              \* columns of the frame X handed to fit() for the make in hand

hvars == <<hit, cold_price>>
svars == <<app, storage, models_cache, pc, req, loaded, got, resp, hit, cold_price>>
tvars == <<script, arg_make, makes, idx, tpc, response, df_len, score, params,
           outcome, wrote, prediction_models, files, archive, attempted, X_cols>>
vars == <<app, storage, models_cache, pc, req, loaded, got, resp, hit, cold_price,
          script, arg_make, makes, idx, tpc, response, df_len, score, params,
          outcome, wrote, prediction_models, files, archive, attempted, X_cols>>

\* ------------------------------------------------------------ bundle values
\* A value a cache slot or a load result can hold.  isNone marks Python's
\* None; otherwise each member is the training run it was pickled by
\* (0 = member not present).
PyNone == [isNone |-> TRUE, model |-> 0, labels_color |-> 0,
           labels_model |-> 0, labels_transmission |-> 0]
EmptyDict == [isNone |-> FALSE, model |-> 0, labels_color |-> 0,
              labels_model |-> 0, labels_transmission |-> 0]
BundleOfRun(r) == [isNone |-> FALSE, model |-> r, labels_color |-> r,
                   labels_model |-> r, labels_transmission |-> r]

IsComplete(b) == /\ ~b.isNone
                 /\ b.model > 0 /\ b.labels_color > 0
                 /\ b.labels_model > 0 /\ b.labels_transmission > 0

SameRun(b) == /\ b.labels_color = b.model
              /\ b.labels_model = b.model
              /\ b.labels_transmission = b.model

\* --------------------------------------------------------------- requests
Fields == {"make", "model", "year", "mileage", "normalized_color", "transmission"}

FullRequest(m) == [json |-> TRUE, make |-> m, model |-> "911", year |-> "2015",
                   mileage |-> "40000", normalized_color |-> "black",
                   transmission |-> "manual"]

\* a body that is not a JSON object (JSON null): request.get_json() is None
NullBody == [json |-> FALSE, make |-> None, model |-> None, year |-> None,
             mileage |-> None, normalized_color |-> None, transmission |-> None]

\* The bodies the clients send: a complete request for every make, and for
\* one make the three requests with a category outside the vocabulary, the
\* six requests with one attribute absent, and a body that is no object.
FirstMake == "Porsche"

Requests ==
    {FullRequest(m) : m \in Makes}
    \cup {[FullRequest(FirstMake) EXCEPT !.model = "UnknownModelXYZ"],
          [FullRequest(FirstMake) EXCEPT !.normalized_color = "plaid"],
          [FullRequest(FirstMake) EXCEPT !.transmission = "cvt"]}
    \cup {[FullRequest(FirstMake) EXCEPT ![f] = None] : f \in Fields}
    \cup {NullBody}

NoRequest == NullBody

\* --------------------------------------------------------------- responses
NoResponse == [status |-> 0, error |-> None, make |-> None, prediction |-> 0]
MissingFeatures == [status |-> 400, error |-> "Missing required features",
                    make |-> None, prediction |-> 0]
LoadFailed(m) == [status |-> 500, error |-> "Failed to load models for make: ",
                  make |-> m, prediction |-> 0]
PredictionError(e) == [status |-> 500, error |-> "Error during prediction: " \o e,
                       make |-> None, prediction |-> 0]
Prediction(p) == [status |-> 200, error |-> None, make |-> None, prediction |-> p]

\* ------------------------------------------------ encoders and regressor
\* classes_ of the LabelEncoder pickled by run r for a field, sorted as
\* LabelEncoder.fit sorts them.
Classes(field, r) ==
    CASE field = "model"            -> IF r = 1 THEN <<"911">> ELSE <<"911", "Cayman">>
      [] field = "normalized_color" -> IF r = 1 THEN <<"black">> ELSE <<"black", "red">>
      [] field = "transmission"     -> <<"manual">>

\* LabelEncoder.transform on one value: its index in classes_, or -1 for the
\* ValueError "y contains previously unseen labels".
transform(classes, v) ==
    IF \E i \in 1..Len(classes) : classes[i] = v
    THEN (CHOOSE i \in 1..Len(classes) : classes[i] = v) - 1
    ELSE -1

\* carmodel.predict followed by int(np.exp(.)): a positive price, fixed by the
\* regressor (its run) and the encoded row.
Price(run, x_model, x_color, x_trans) ==
    1000 * run + 100 * (x_model + 1) + 10 * (x_color + 1) + (x_trans + 1)

\* (mutant) mileage is left out of the features list
AnyFeatureMissing_NoMileage(r) == \E f \in Fields \ {"mileage"} : r[f] = None

\* lines 59-69: any(feature is None for feature in features)
AnyFeatureMissing(r) == \E f \in Fields : r[f] = None

\* (mutant) the ValueError of transform escapes the handler: no response
Respond_Propagate(r, g) ==
    LET xm == transform(Classes("model", g.labels_model), r.model)
        xc == transform(Classes("normalized_color", g.labels_color), r.normalized_color)
        xt == transform(Classes("transmission", g.labels_transmission), r.transmission)
    IN  IF xm < 0 \/ xc < 0 \/ xt < 0
        THEN NoResponse
        ELSE Prediction(Price(g.model, xm, xc, xt))

\* lines 85-108 once the four objects are in hand
Respond(r, g) ==
    LET xm == transform(Classes("model", g.labels_model), r.model)
        xc == transform(Classes("normalized_color", g.labels_color), r.normalized_color)
        xt == transform(Classes("transmission", g.labels_transmission), r.transmission)
    IN  IF xm < 0 \/ xc < 0 \/ xt < 0
        THEN PredictionError("ValueError")
        ELSE Prediction(Price(g.model, xm, xc, xt))

\* ------------------------------------------------------ training: data
Scripts == {"train-model", "train_model"}
CarModels == {"911", "Cayman"}

\* fetch_data(min_observations=10) and the "len(df) < 20" test of main()
min_observations == 10
MinRows == 20

\* What the query of fetch_data returns for a make: for every model value,
\* and for the rows without one, the number of rows that pass the query's
\* filters.  train-model.py asks for rows with a model only (line 38);
\* train_model.py's query (lines 33-39) has no such filter.
ModelValues == CarModels \cup {None}
RowCounts == {0, 9, 10}
Responses(s) ==
    {rows \in [ModelValues -> RowCounts] : s = "train-model" => rows[None] = 0}
NoResponseRows == [mo \in ModelValues |-> 0]

RECURSIVE SumOver(_, _)
SumOver(f, S) ==
    IF S = {} THEN 0
    ELSE LET x == CHOOSE x \in S : TRUE IN f[x] + SumOver(f, S \ {x})

\* fetch_data lines 45-52: len of the frame it returns, or -1 for the
\* KeyError df['model'] raises on the column-less frame built from no rows.
\* value_counts() leaves out the rows without a model and isin() is false
\* for them, so they are never among the rows returned.
frequent_models(rows) == {mo \in CarModels : rows[mo] >= min_observations}

fetch_data(rows) ==
    IF SumOver(rows, ModelValues) = 0 THEN -1
    ELSE SumOver(rows, frequent_models(rows))

\* train scores (R^2 in hundredths): a poor fit and a good one; the code
\* treats every score alike.  The grid of train_model.
Scores == {50, 81}
ParamGrid == [n_estimators : {100, 200, 300},
              criterion : {"squared_error", "friedman_mse"}]
NoParams == [n_estimators |-> 0, criterion |-> None]

\* what main() prints for a make: "Skipping ...", "Error processing ...: e",
\* or nothing more once save_model has printed its own line
Skipped == "Skipping - insufficient data"
Saved == "Model and encoders saved and compressed"
Error(e) == "Error processing: " \o e

\* save_model: the four loose files, in the order lines 121-124 write them,
\* lines 129-132 add them to the archive and lines 135-138 remove them
PklOrder == <<"model.pkl", "labels_model.pkl", "labels_color.pkl", "labels_transmission.pkl">>
FirstPkls(k) == {PklOrder[i] : i \in 1..k}
Pkls == {"model.pkl", "labels_model.pkl", "labels_color.pkl", "labels_transmission.pkl"}

\* fetch_data line 35: the columns the query selects, in the order of the frame
select_columns == <<"year", "model", "mileage", "normalized_color", "transmission",
                    "sold_price", "bid_amount", "end_date", "status">>

\* (mutant) the weight column is dropped as well
drop_columns_WithW == {"sold_price", "bid_amount", "end_date", "status", "days_since_end", "W"}

\* prepare_data lines 70-77: two columns are appended, then five are dropped
drop_columns == {"sold_price", "bid_amount", "end_date", "status", "days_since_end"}
KeptColumn(c) == c \notin drop_columns
prepare_data_columns(cols) == SelectSeq(cols \o <<"days_since_end", "W">>, KeptColumn)

\* (mutant) the constraint sits on the second column
monotonic_cst_OnModel == <<0, -1, 0, 0, 0, 0>>

\* train_model line 100: monotonic_cst of the RandomForestRegressor
monotonic_cst == <<0, 0, -1, 0, 0, 0>>

\* What fit (line 102) can return, seen along column i of the matrix with
\* the other columns held fixed: the rank of the column's value -> the rank
\* of the prediction.  The regressor built at line 100 is, by the contract
\* of monotonic_cst, non-increasing along a column marked -1, non-decreasing
\* along one marked 1 and unconstrained along one marked 0.  Ranks are kept
\* by log1p (mileage, prepare_data line 67 and predict() line 100) and by
\* exp (the price, predict() line 104).
MaxLevel == 2
Levels == 0..MaxLevel
NonIncreasing(g) == \A a, b \in Levels : a <= b => g[a] >= g[b]
NonDecreasing(g) == \A a, b \in Levels : a <= b => g[a] <= g[b]
fit(cst, i) ==
    {g \in [Levels -> Levels] :
        /\ cst[i] = -1 => NonIncreasing(g)
        /\ cst[i] = 1 => NonDecreasing(g)}
car_model_rf == [i \in 1..Len(monotonic_cst) |-> fit(monotonic_cst, i)]

\* predict() lines 85-92: the columns of input_data, in order
input_data_columns == <<"year", "model", "mileage", "normalized_color", "transmission", "W">>

\* rows of prediction_models for a make
RowsOf(table, mk) == {r \in table : r.make = mk}

\* (mutant) the existence check is gone: always insert
upsert_AlwaysInsert(table, mk, sc, pa) ==
    table \cup {[make |-> mk, score |-> sc, params |-> pa]}

\* save_model_params lines 146-161: update the make's rows if there are any,
\* else insert one.
upsert(table, mk, sc, pa) ==
    IF RowsOf(table, mk) # {}
    THEN {IF r.make = mk THEN [r EXCEPT !.score = sc, !.params = pa] ELSE r : r \in table}
    ELSE table \cup {[make |-> mk, score |-> sc, params |-> pa]}

\* ------------------------------------------------------------------- Init
ServingInit ==
    /\ storage = [m \in Makes |-> 0]
    /\ models_cache = << >>
    /\ pc = [t \in Threads |-> "idle"]
    /\ req = [t \in Threads |-> NoRequest]
    /\ loaded = [t \in Threads |-> EmptyDict]
    /\ got = [t \in Threads |-> EmptyDict]
    /\ resp = [t \in Threads |-> NoResponse]
    /\ hit = [t \in Threads |-> FALSE]
    /\ cold_price = [m \in Makes |-> 0]

TrainingNotStarted ==
    /\ script = "train-model"
    /\ arg_make = None
    /\ makes = << >>
    /\ idx = 0
    /\ tpc = "start"
    /\ response = NoResponseRows
    /\ df_len = 0
    /\ score = 0
    /\ params = NoParams
    /\ outcome = "none"
    /\ wrote = {}
    /\ prediction_models = {}
    /\ files = [m \in Makes |-> {}]
    /\ archive = [m \in Makes |-> {}]
    /\ attempted = << >>
    /\ X_cols = << >>

Init ==
    /\ app \in Apps
    /\ ServingInit
    /\ TrainingNotStarted

\* ---------------------------------------------------------------- actions
\* Training runs are numbered in the order their artifacts are uploaded.
LastRun == CHOOSE n \in 0..MaxRun :
               /\ \E m \in Makes : storage[m] = n
               /\ \A m \in Makes : storage[m] <= n

\* The artifacts of a new training run of make m replace the stored ones
\* (all files of the make at once).
Upload(m) ==
    /\ LastRun < MaxRun
    /\ storage' = [storage EXCEPT ![m] = LastRun + 1]
    /\ UNCHANGED <<app, models_cache, pc, req, loaded, got, resp>>
    /\ UNCHANGED tvars
    /\ UNCHANGED hvars

\* predict() lines 55-70: parse the body, collect the features, validate.
Receive(t, r) ==
    /\ pc[t] = "idle"
    /\ req' = [req EXCEPT ![t] = r]
    /\ IF ~r.json
       THEN \* data is None: data.get raises AttributeError, caught at line 110
            /\ pc' = [pc EXCEPT ![t] = "done"]
            /\ resp' = [resp EXCEPT ![t] = PredictionError("AttributeError")]
       ELSE IF AnyFeatureMissing(r)
       THEN /\ pc' = [pc EXCEPT ![t] = "done"]
            /\ resp' = [resp EXCEPT ![t] = MissingFeatures]
       ELSE /\ pc' = [pc EXCEPT ![t] = "check"]
            /\ resp' = [resp EXCEPT ![t] = NoResponse]
    /\ UNCHANGED <<app, storage, models_cache, loaded, got>>
    /\ UNCHANGED tvars
    /\ UNCHANGED hvars

\* line 73: if make not in models_cache
CheckCacheStep(t) ==
    /\ pc[t] = "check"
    /\ IF req[t].make \notin DOMAIN models_cache
       THEN pc' = [pc EXCEPT ![t] = IF app = "model_app" THEN "download" ELSE "dl_model"]
       ELSE pc' = [pc EXCEPT ![t] = "get_model"]
    /\ UNCHANGED <<app, storage, models_cache, req, loaded, got, resp>>
    /\ UNCHANGED tvars

CheckCache(t) == CheckCacheStep(t) /\ UNCHANGED hvars

\* the same step, observed: remember whether the make was found
CheckCacheObserved(t) ==
    /\ CheckCacheStep(t)
    /\ hit' = [hit EXCEPT ![t] = req[t].make \in DOMAIN models_cache]
    /\ UNCHANGED cold_price

\* model_app.load_models_for_make: one download of {make}/model.zip, then
\* extraction and four pickle.load calls on the extracted files; any
\* exception (no such object, storage unreachable, bad archive) yields None.
DownloadZip(t) ==
    /\ pc[t] = "download"
    /\ app = "model_app"
    /\ \E ok \in BOOLEAN :
          loaded' = [loaded EXCEPT ![t] =
                        IF storage[req[t].make] = 0 \/ ~ok THEN PyNone
                        ELSE BundleOfRun(storage[req[t].make])]
    /\ pc' = [pc EXCEPT ![t] = "store"]
    /\ UNCHANGED <<app, storage, models_cache, req, got, resp>>
    /\ UNCHANGED tvars
    /\ UNCHANGED hvars

\* index.load_models_for_make: four downloads, one per file, in the order the
\* dict literal evaluates them; any exception yields None.
NextDownload(p) ==
    CASE p = "dl_model"  -> "dl_color"
      [] p = "dl_color"  -> "dl_lmodel"
      [] p = "dl_lmodel" -> "dl_trans"
      [] p = "dl_trans"  -> "store"

MemberAt(p) ==
    CASE p = "dl_model"  -> "model"
      [] p = "dl_color"  -> "labels_color"
      [] p = "dl_lmodel" -> "labels_model"
      [] p = "dl_trans"  -> "labels_transmission"

\* (mutant) a failed download is skipped and the dict is returned without it
DownloadFile_KeepPartial(t) ==
    /\ pc[t] \in {"dl_model", "dl_color", "dl_lmodel", "dl_trans"}
    /\ app = "index"
    /\ \E ok \in BOOLEAN :
          IF storage[req[t].make] = 0 \/ ~ok
          THEN /\ loaded' = loaded
               /\ pc' = [pc EXCEPT ![t] = NextDownload(pc[t])]
          ELSE /\ loaded' = [loaded EXCEPT ![t][MemberAt(pc[t])] = storage[req[t].make]]
               /\ pc' = [pc EXCEPT ![t] = NextDownload(pc[t])]
    /\ UNCHANGED <<app, storage, models_cache, req, got, resp>>
    /\ UNCHANGED tvars
    /\ UNCHANGED hvars

DownloadFile(t) ==
    /\ pc[t] \in {"dl_model", "dl_color", "dl_lmodel", "dl_trans"}
    /\ app = "index"
    /\ \E ok \in BOOLEAN :
          IF storage[req[t].make] = 0 \/ ~ok
          THEN /\ loaded' = [loaded EXCEPT ![t] = PyNone]
               /\ pc' = [pc EXCEPT ![t] = "store"]
          ELSE /\ loaded' = [loaded EXCEPT ![t][MemberAt(pc[t])] = storage[req[t].make]]
               /\ pc' = [pc EXCEPT ![t] = NextDownload(pc[t])]
    /\ UNCHANGED <<app, storage, models_cache, req, got, resp>>
    /\ UNCHANGED tvars
    /\ UNCHANGED hvars

\* (mutant) the assignment rebinds models_cache to a fresh one-entry dict
CacheAfterStore_Reset(cache, m, b) == [k \in {m} |-> b]

\* line 74: models_cache[make] = <what load_models_for_make returned>
CacheAfterStore(cache, m, b) ==
    [k \in DOMAIN cache \cup {m} |-> IF k = m THEN b ELSE cache[k]]

Store(t) ==
    /\ pc[t] = "store"
    /\ models_cache' = CacheAfterStore(models_cache, req[t].make, loaded[t])
    /\ loaded' = [loaded EXCEPT ![t] = EmptyDict]
    /\ pc' = [pc EXCEPT ![t] = "isnone"]
    /\ UNCHANGED <<app, storage, req, got, resp>>
    /\ UNCHANGED tvars
    /\ UNCHANGED hvars

\* lines 75-76: if models_cache[make] is None: return 500
IsNoneCheck(t) ==
    /\ pc[t] = "isnone"
    /\ IF models_cache[req[t].make].isNone
       THEN /\ pc' = [pc EXCEPT ![t] = "done"]
            /\ resp' = [resp EXCEPT ![t] = LoadFailed(req[t].make)]
       ELSE /\ pc' = [pc EXCEPT ![t] = "get_model"]
            /\ UNCHANGED resp
    /\ UNCHANGED <<app, storage, models_cache, req, loaded, got>>
    /\ UNCHANGED tvars
    /\ UNCHANGED hvars

\* lines 79-82: four reads models_cache[make][<member>]; subscripting None
\* raises TypeError, caught at line 110.  The last read is followed by the
\* thread-local lines 85-108.
NextGet(p) ==
    CASE p = "get_model"  -> "get_color"
      [] p = "get_color"  -> "get_lmodel"
      [] p = "get_lmodel" -> "get_trans"
      [] p = "get_trans"  -> "done"

MemberRead(p) ==
    CASE p = "get_model"  -> "model"
      [] p = "get_color"  -> "labels_color"
      [] p = "get_lmodel" -> "labels_model"
      [] p = "get_trans"  -> "labels_transmission"

GetMemberStep(t) ==
    /\ pc[t] \in {"get_model", "get_color", "get_lmodel", "get_trans"}
    /\ LET entry == models_cache[req[t].make]
           g == [got[t] EXCEPT ![MemberRead(pc[t])] = entry[MemberRead(pc[t])]]
       IN  IF entry.isNone
           THEN /\ pc' = [pc EXCEPT ![t] = "done"]
                /\ resp' = [resp EXCEPT ![t] = PredictionError("TypeError")]
                /\ got' = [got EXCEPT ![t] = EmptyDict]
           ELSE /\ pc' = [pc EXCEPT ![t] = NextGet(pc[t])]
                /\ IF pc[t] = "get_trans"
                   THEN /\ resp' = [resp EXCEPT ![t] = Respond(req[t], g)]
                        /\ got' = [got EXCEPT ![t] = EmptyDict]
                   ELSE /\ resp' = resp
                        /\ got' = [got EXCEPT ![t] = g]
    /\ UNCHANGED <<app, storage, models_cache, req, loaded>>
    /\ UNCHANGED tvars

GetMember(t) == GetMemberStep(t) /\ UNCHANGED hvars

\* the same step, observed: remember the first prediction a loading request returned
GetMemberObserved(t) ==
    /\ GetMemberStep(t)
    /\ cold_price' = IF /\ resp'[t].status = 200
                        /\ ~hit[t]
                        /\ cold_price[req[t].make] = 0
                     THEN [cold_price EXCEPT ![req[t].make] = resp'[t].prediction]
                     ELSE cold_price
    /\ UNCHANGED hit

\* the response has been sent; the thread is free for the next request
Return(t) ==
    /\ pc[t] = "done"
    /\ pc' = [pc EXCEPT ![t] = "idle"]
    /\ req' = [req EXCEPT ![t] = NoRequest]
    /\ resp' = [resp EXCEPT ![t] = NoResponse]
    /\ UNCHANGED <<app, storage, models_cache, loaded, got>>
    /\ UNCHANGED tvars
    /\ UNCHANGED hvars

Next ==
    \/ \E m \in Makes : Upload(m)
    \/ \E t \in Threads, r \in Requests : Receive(t, r)
    \/ \E t \in Threads : CheckCache(t)
    \/ \E t \in Threads : DownloadZip(t)
    \/ \E t \in Threads : DownloadFile(t)
    \/ \E t \in Threads : Store(t)
    \/ \E t \in Threads : IsNoneCheck(t)
    \/ \E t \in Threads : GetMember(t)
    \/ \E t \in Threads : Return(t)

Spec == Init /\ [][Next]_vars

\* The same program with the two observers switched on.
NextObserved ==
    \/ \E m \in Makes : Upload(m)
    \/ \E t \in Threads, r \in Requests : Receive(t, r)
    \/ \E t \in Threads : CheckCacheObserved(t)
    \/ \E t \in Threads : DownloadZip(t)
    \/ \E t \in Threads : DownloadFile(t)
    \/ \E t \in Threads : Store(t)
    \/ \E t \in Threads : IsNoneCheck(t)
    \/ \E t \in Threads : GetMemberObserved(t)
    \/ \E t \in Threads : Return(t)

SpecObserved == Init /\ [][NextObserved]_vars

\* --------------------------------------------------------------- training
\* what get_makes may return: the rows of all_makes
Catalogs == UNION {[1..n -> Makes] : n \in 0..MaxCatalog}

\* The script starts with --make <make>, with an empty --make value or
\* without the flag (train_model.py takes no argument), over an empty table
\* and directory or over what an earlier run left for a make: a metadata row
\* and a bundle.
InitTrain ==
    /\ app = "model_app"
    /\ ServingInit
    /\ script \in Scripts
    /\ arg_make \in (IF script = "train-model" THEN Makes \cup {None, ""} ELSE {None})
    /\ makes = << >>
    /\ idx = 0
    /\ tpc = "start"
    /\ response = NoResponseRows
    /\ df_len = 0
    /\ score = 0
    /\ params = NoParams
    /\ outcome = "none"
    /\ wrote = {}
    /\ attempted = << >>
    /\ X_cols = << >>
    /\ \/ /\ prediction_models = {}
          /\ files = [m \in Makes |-> {}]
          /\ archive = [m \in Makes |-> {}]
       \/ /\ prediction_models = {[make |-> FirstMake, score |-> 90, params |-> NoParams]}
          /\ files = [m \in Makes |-> IF m = FirstMake THEN {"model.zip"} ELSE {}]
          /\ archive = [m \in Makes |-> IF m = FirstMake THEN Pkls ELSE {}]

\* line 175 "if args.make:": None and the empty string are false
truthy(s) == s # None /\ s # ""

\* (mutant) --make is ignored in favour of a fixed make
make_Fixed == IF truthy(arg_make) THEN FirstMake ELSE makes[idx]

\* the make the iteration in hand works on
make == IF truthy(arg_make) THEN arg_make ELSE makes[idx]

\* main() lines 175-178: --make given, go straight to the one make
SingleMake ==
    /\ tpc = "start"
    /\ truthy(arg_make)
    /\ idx' = 1
    /\ tpc' = "fetch"
    /\ UNCHANGED <<script, arg_make, makes, response, df_len, score, params,
                   outcome, wrote, prediction_models, files, archive, attempted, X_cols>>
    /\ UNCHANGED svars

\* main() lines 200-204: get_makes(); an exception here is outside every try
GetMakes ==
    /\ tpc = "start"
    /\ ~truthy(arg_make)
    /\ \/ /\ \E c \in Catalogs : makes' = c
          /\ idx' = 1
          /\ tpc' = "loop"
       \/ /\ tpc' = "crashed"
          /\ UNCHANGED <<makes, idx>>
    /\ UNCHANGED <<script, arg_make, response, df_len, score, params,
                   outcome, wrote, prediction_models, files, archive, attempted, X_cols>>
    /\ UNCHANGED svars

\* for make in makes: the next make, or the end of the list
LoopHead ==
    /\ tpc = "loop"
    /\ tpc' = IF idx <= Len(makes) THEN "fetch" ELSE "exit"
    /\ UNCHANGED <<script, arg_make, makes, idx, response, df_len, score, params,
                   outcome, wrote, prediction_models, files, archive, attempted, X_cols>>
    /\ UNCHANGED svars

\* lines 208-211: df = fetch_data(make); if len(df) < 20: skip.
\* The query itself may raise (the store is unreachable).
Fetch ==
    /\ tpc = "fetch"
    /\ attempted' = Append(attempted, make)
    /\ \/ /\ \E rows \in Responses(script) :
                /\ response' = rows
                /\ IF fetch_data(rows) < 0
                   THEN /\ outcome' = Error("KeyError 'model'")
                        /\ df_len' = 0
                        /\ tpc' = "made"
                   ELSE /\ df_len' = fetch_data(rows)
                        /\ IF fetch_data(rows) < MinRows
                           THEN outcome' = Skipped /\ tpc' = "made"
                           ELSE outcome' = outcome /\ tpc' = "train"
       \/ /\ outcome' = Error("query")
          /\ tpc' = "made"
          /\ UNCHANGED <<response, df_len>>
    /\ UNCHANGED <<script, arg_make, makes, idx, score, params,
                   wrote, prediction_models, files, archive, X_cols>>
    /\ UNCHANGED svars

\* lines 213-217: prepare_data, encode_features, train_model; any of them may
\* raise, on the rows alone (an end_date that cannot be parsed) as well as
\* for lack of memory, in this and in every later iteration.  train_model
\* fits on X and returns the train score and best_params_.
Train ==
    /\ tpc = "train"
    /\ \/ /\ \E sc \in Scores, pa \in ParamGrid :
                /\ score' = sc
                /\ params' = IF script = "train-model" THEN pa ELSE params
          /\ X_cols' = prepare_data_columns(select_columns)
          /\ tpc' = IF script = "train-model" THEN "save_params" ELSE "dump"
          /\ UNCHANGED outcome
       \/ /\ outcome' = Error("train")
          /\ tpc' = "made"
          /\ UNCHANGED <<score, params, X_cols>>
    /\ UNCHANGED <<script, arg_make, makes, idx, response, df_len,
                   wrote, prediction_models, files, archive, attempted>>
    /\ UNCHANGED svars

\* (mutant) save_model_params has no try/except: its failure ends the iteration
SaveModelParams_Raise ==
    /\ tpc = "save_params"
    /\ \/ /\ prediction_models' = upsert(prediction_models, make, score, params)
          /\ wrote' = wrote \cup {"params"}
          /\ tpc' = "dump"
          /\ UNCHANGED outcome
       \/ /\ wrote' = wrote \cup {"params_error"}
          /\ outcome' = Error("save_model_params")
          /\ tpc' = "made"
          /\ UNCHANGED prediction_models
    /\ UNCHANGED <<script, arg_make, makes, idx, response, df_len, score, params,
                   files, archive, attempted, X_cols>>
    /\ UNCHANGED svars

\* train-model.py line 220: save_model_params; its own try/except swallows
\* every failure and main() goes on to save_model.
SaveModelParams ==
    /\ tpc = "save_params"
    /\ \/ /\ prediction_models' = upsert(prediction_models, make, score, params)
          /\ wrote' = wrote \cup {"params"}
       \/ /\ wrote' = wrote \cup {"params_error"}
          /\ UNCHANGED prediction_models
    /\ tpc' = "dump"
    /\ UNCHANGED <<script, arg_make, makes, idx, response, df_len, score, params,
                   outcome, files, archive, attempted, X_cols>>
    /\ UNCHANGED svars

\* save_model lines 111-124: makedirs and the four open/pickle.dump pairs.
\* open() creates the file before its dump can fail, so a failure leaves
\* the first k files, the last of them possibly incomplete (k = 0: makedirs
\* or the first open failed)
SaveDump ==
    /\ tpc = "dump"
    /\ \/ /\ files' = [files EXCEPT ![make] = @ \cup Pkls]
          /\ wrote' = wrote \cup {"pkl"}
          /\ tpc' = "zip"
          /\ UNCHANGED outcome
       \/ /\ \E k \in 0..4 :
                /\ files' = [files EXCEPT ![make] = @ \cup FirstPkls(k)]
                /\ wrote' = IF k > 0 THEN wrote \cup {"pkl"} ELSE wrote
          /\ outcome' = Error("save_model")
          /\ tpc' = "made"
    /\ UNCHANGED <<script, arg_make, makes, idx, response, df_len, score, params,
                   prediction_models, archive, attempted, X_cols>>
    /\ UNCHANGED svars

\* save_model lines 127-132: write model.zip with the four entries, each
\* under the base name of its file.  A failure leaves the directory as it
\* was (the archive could not be opened) or an archive with the first k
\* names: an entry is recorded when its write is left, also by an exception,
\* so the entry whose write failed may be among them, cut short
LoosePaths(mk) == {[dir |-> "../models/" \o mk, name |-> n] : n \in Pkls}
basename(p) == p.name

\* (mutant) the last zipf.write is missing
zip_entries_NoTransmission(paths) ==
    {basename(p) : p \in {q \in paths : q.name # "labels_transmission.pkl"}}

zip_entries(paths) == {basename(p) : p \in paths}

SaveZip ==
    /\ tpc = "zip"
    /\ \/ /\ files' = [files EXCEPT ![make] = @ \cup {"model.zip"}]
          /\ archive' = [archive EXCEPT ![make] = zip_entries(LoosePaths(make))]
          /\ wrote' = wrote \cup {"zip"}
          /\ tpc' = "remove"
          /\ UNCHANGED outcome
       \/ /\ \/ UNCHANGED <<files, archive, wrote>>
             \/ \E k \in 0..4 :
                   /\ files' = [files EXCEPT ![make] = @ \cup {"model.zip"}]
                   /\ archive' = [archive EXCEPT ![make] = FirstPkls(k)]
                   /\ wrote' = wrote \cup {"zip_partial"}
          /\ outcome' = Error("save_model")
          /\ tpc' = "made"
    /\ UNCHANGED <<script, arg_make, makes, idx, response, df_len, score, params,
                   prediction_models, attempted, X_cols>>
    /\ UNCHANGED svars

\* save_model lines 135-140: remove the four loose files; a failure leaves
\* the files not yet removed
SaveRemove ==
    /\ tpc = "remove"
    /\ \/ /\ files' = [files EXCEPT ![make] = @ \ Pkls]
          /\ outcome' = Saved
       \/ /\ \E k \in 0..3 : files' = [files EXCEPT ![make] = @ \ FirstPkls(k)]
          /\ outcome' = Error("save_model")
    /\ tpc' = "made"
    /\ UNCHANGED <<script, arg_make, makes, idx, response, df_len, score, params,
                   wrote, prediction_models, archive, attempted, X_cols>>
    /\ UNCHANGED svars

\* (mutant) an "Error processing" outcome ends the run
Advance_AbortOnError ==
    /\ tpc = "made"
    /\ IF truthy(arg_make) \/ outcome \notin {Skipped, Saved}
       THEN tpc' = "exit" /\ idx' = idx
       ELSE tpc' = "loop" /\ idx' = idx + 1
    /\ response' = NoResponseRows
    /\ df_len' = 0
    /\ score' = 0
    /\ params' = NoParams
    /\ outcome' = "none"
    /\ wrote' = {}
    /\ X_cols' = << >>
    /\ UNCHANGED <<script, arg_make, makes, prediction_models, files, archive, attempted>>
    /\ UNCHANGED svars

\* the iteration is over (continue / fall out of the try): the loop goes on
\* with the next make whatever the outcome; with --make, main() returns
Advance ==
    /\ tpc = "made"
    /\ IF truthy(arg_make)
       THEN tpc' = "exit" /\ idx' = idx
       ELSE tpc' = "loop" /\ idx' = idx + 1
    /\ response' = NoResponseRows
    /\ df_len' = 0
    /\ score' = 0
    /\ params' = NoParams
    /\ outcome' = "none"
    /\ wrote' = {}
    /\ X_cols' = << >>
    /\ UNCHANGED <<script, arg_make, makes, prediction_models, files, archive, attempted>>
    /\ UNCHANGED svars

NextTrain ==
    \/ SingleMake
    \/ GetMakes
    \/ LoopHead
    \/ Fetch
    \/ Train
    \/ SaveModelParams
    \/ SaveDump
    \/ SaveZip
    \/ SaveRemove
    \/ Advance

SpecTrain == InitTrain /\ [][NextTrain]_vars

\* The script is one running process: it takes its next step whenever it has one.
SpecTrainFair == InitTrain /\ [][NextTrain]_vars /\ WF_vars(NextTrain)

\* ================================================================= claims
IsLoaded(m) == m \in DOMAIN models_cache /\ IsComplete(models_cache[m])
Loading == {"download", "dl_model", "dl_color", "dl_lmodel", "dl_trans"}
Complete(r) == r.json /\ \A f \in Fields : r[f] # None

\* C1: for every make at most one load (a call of load_models_for_make) is
\* in flight at any time, however many first requests arrive together.
C1_AtMostOneLoadInFlight ==
    \A m \in Makes :
        Cardinality({t \in Threads : pc[t] \in Loading /\ req[t].make = m}) <= 1

\* C2: every key of models_cache maps to a complete bundle; a failed load
\* leaves neither a partial entry nor a None placeholder.
C2_CacheEntriesComplete ==
    \A m \in DOMAIN models_cache : IsComplete(models_cache[m])

\* C3: a failed load does not poison the cache: a request that consults the
\* cache for a make that is not Loaded (in particular after a failed load)
\* attempts the download again.
C3_FailedLoadIsRetried ==
    [][\A t \in Threads :
          (pc[t] = "check" /\ pc'[t] # "check" /\ ~IsLoaded(req[t].make))
              => pc'[t] \in Loading]_vars

\* C4: once a successful load has created the cache entry of a make, the
\* entry is never replaced, modified or removed.
C4_LoadedEntryImmutable ==
    [][\A m \in Makes :
          IsLoaded(m) => (m \in DOMAIN models_cache' /\ models_cache'[m] = models_cache[m])]_vars

\* C5: the four members of every bundle in the cache come from the same
\* training run, also when a run replaces the artifacts during a load.
C5_BundleFromOneRun ==
    \A m \in DOMAIN models_cache :
        IsComplete(models_cache[m]) => SameRun(models_cache[m])

\* C6: a request (a JSON object) with any of the six attributes absent is
\* answered 400 "Missing required features" straight from validation: its
\* handler never reaches the cache check, a download or a store.
C6_MissingFeatureRejected ==
    \A t \in Threads :
        (pc[t] # "idle" /\ req[t].json /\ \E f \in Fields : req[t][f] = None)
            => (pc[t] = "done" /\ resp[t] = MissingFeatures)

C6_Witness ==
    \E t \in Threads :
        /\ pc[t] = "done"
        /\ req[t].json
        /\ req[t].mileage = None
        /\ resp[t].status = 400
        /\ req[t].make \notin DOMAIN models_cache
        /\ storage[req[t].make] > 0

\* C7: a complete request that reached the encoders of a loaded make with a
\* model, colour or transmission outside every trained vocabulary is
\* answered with status 400, never 500.
InVocabulary(field, v) == \E r \in 1..MaxRun : transform(Classes(field, r), v) >= 0
OutOfVocabulary(r) == \E f \in {"model", "normalized_color", "transmission"} :
                          ~InVocabulary(f, r[f])

C7_UnknownCategoryIs400 ==
    \A t \in Threads :
        (/\ pc[t] = "done"
         /\ Complete(req[t])
         /\ OutOfVocabulary(req[t])
         /\ resp[t] # LoadFailed(req[t].make)
         /\ resp[t] # PredictionError("TypeError"))
            => resp[t].status = 400

\* C8: while the bundle of a make cannot be loaded, every complete request
\* for it, the first and every later one, is answered 500 "Failed to load
\* models for make: <make>".
C8_UnavailableIsLoadFailed ==
    \A t \in Threads :
        (pc[t] = "done" /\ Complete(req[t]) /\ storage[req[t].make] = 0)
            => resp[t] = LoadFailed(req[t].make)

\* C9: a make for which the query returned fewer than 20 usable rows (rows
\* whose model occurs at least min_observations times) is skipped: nothing
\* is written for it and main() reports a skip, not an error.
Usable(rows) == SumOver(rows, {mo \in CarModels : rows[mo] >= 10})

C9_FewRowsSkipped ==
    (tpc = "made" /\ outcome # Error("query") /\ Usable(response) < 20)
        => (outcome = Skipped /\ wrote = {})

\* C10: save_model_params and save_model are reached, and anything is
\* written for a make, only when its train score exceeds 0.8.
C10_LowScoreNotSaved ==
    (tpc \in {"save_params", "dump", "zip", "remove"} \/ wrote # {})
        => score > 80

\* Progress of main(): every step moves the script forward in the order
\* (iteration, position inside the iteration), that order is bounded, and
\* until main() has returned or died a next step exists.  For the one
\* running process (weak fairness of its steps) this is termination.
StageOf(p) ==
    CASE p = "start"       -> 0
      [] p = "loop"        -> 1
      [] p = "fetch"       -> 2
      [] p = "train"       -> 3
      [] p = "save_params" -> 4
      [] p = "dump"        -> 5
      [] p = "zip"         -> 6
      [] p = "remove"      -> 7
      [] p = "made"        -> 8
      [] p = "exit"        -> 9
      [] p = "crashed"     -> 9

Rank == 10 * idx + StageOf(tpc)

\* C11: in batch mode an exception while handling one make does not abort
\* the run: fetch_data is called for the makes of the list get_makes returned
\* in list order, every step leads on towards the end of the list, a next
\* step always exists, and the run ends only when every make was attempted.
C11_EveryMakeAttempted ==
    /\ [](~truthy(arg_make) =>
              /\ Len(attempted) <= Len(makes)
              /\ attempted = SubSeq(makes, 1, Len(attempted)))
    /\ [](~truthy(arg_make) /\ tpc = "exit" => attempted = makes)
    /\ [](tpc \notin {"exit", "crashed"} => ENABLED NextTrain)
    /\ [](Rank <= 10 * (Len(makes) + 1) + 9)
    /\ [][Rank' > Rank]_vars

C11_Witness ==
    /\ arg_make = None
    /\ tpc = "exit"
    /\ Len(attempted) = 2
    /\ attempted[1] # attempted[2]
    /\ files[attempted[1]] \cap Pkls # {}
    /\ "model.zip" \notin files[attempted[1]]

\* C12: save_model_params is an upsert keyed by make: the table never holds
\* two rows for a make, after a successful call the make's row carries the
\* score and params of that call, and the same call again changes nothing.
C12_UpsertOneRowPerMake ==
    /\ \A mk \in Makes : Cardinality(RowsOf(prediction_models, mk)) <= 1
    /\ "params" \in wrote =>
          /\ RowsOf(prediction_models, make) =
                 {[make |-> make, score |-> score, params |-> params]}
          /\ upsert(prediction_models, make, score, params) = prediction_models

C12_Witness ==
    /\ tpc = "dump"
    /\ "params" \in wrote
    /\ make = FirstMake
    /\ "model.zip" \in files[FirstMake]
    /\ score # 90

\* C13: for a make and identical inputs, every prediction served from the
\* cache (the make was found at line 73) equals the prediction returned by
\* the request that loaded the bundle.
C13_WarmEqualsCold ==
    \A t \in Threads :
        (/\ pc[t] = "done"
         /\ resp[t].status = 200
         /\ hit[t]
         /\ cold_price[req[t].make] # 0)
            => resp[t].prediction = cold_price[req[t].make]

C13_Witness ==
    \E t \in Threads :
        /\ pc[t] = "done"
        /\ resp[t].status = 200
        /\ hit[t]
        /\ cold_price[req[t].make] = resp[t].prediction

\* C14: what load_models_for_make returns (the value about to be stored at
\* line 74) is None or a bundle with all four members, never a subset.
C14_LoadAllOrNone ==
    \A t \in Threads :
        pc[t] = "store" => (loaded[t] = PyNone \/ IsComplete(loaded[t]))

C14_Witness ==
    \E t \in Threads :
        /\ app = "index"
        /\ pc[t] = "store"
        /\ loaded[t] = PyNone
        /\ storage[req[t].make] > 0

\* C15: when save_model has completed for a make, its directory holds
\* model.zip with exactly the four entries and none of the four loose files;
\* removal starts only with the complete archive written and all four loose
\* files still in place, and a loose file disappears only after that.
C15_ArchiveThenRemove ==
    /\ [](tpc = "made" /\ outcome = Saved =>
              /\ "model.zip" \in files[make]
              /\ archive[make] = Pkls
              /\ files[make] \cap Pkls = {})
    /\ [](tpc = "remove" =>
              /\ "model.zip" \in files[make]
              /\ archive[make] = Pkls
              /\ Pkls \subseteq files[make])
    /\ [][\A m \in Makes :
             (files[m] \cap Pkls) \ files'[m] # {}
                 => ("model.zip" \in files[m] /\ archive[m] = Pkls /\ "zip" \in wrote)]_vars

C15_Witness ==
    /\ tpc = "made"
    /\ outcome = Saved
    /\ "pkl" \in wrote
    /\ archive[make] = Pkls
    /\ files[make] = {"model.zip"}

\* C16 (as stated): the matrix passed to fit has the five model-input
\* columns year, model, mileage, normalized_color, transmission and no W.
FiveColumns == <<"year", "model", "mileage", "normalized_color", "transmission">>

C16_FitExcludesW ==
    X_cols # << >> =>
        /\ \A i \in 1..Len(X_cols) : X_cols[i] # "W"
        /\ X_cols = FiveColumns

\* C16 (amended): the matrix passed to fit has six columns, the five
\* model-input columns in the fixed order followed by W (which is also the
\* sample_weight argument), and the frame passed to predict at serving time
\* has the same six columns in the same order.
C16_FitIncludesW ==
    X_cols # << >> =>
        /\ X_cols = FiveColumns \o <<"W">>
        /\ input_data_columns = X_cols

C16_Witness ==
    /\ tpc = "dump"
    /\ Len(X_cols) = 6
    /\ X_cols[6] = "W"

\* C17: with --make, only that make is fetched and nothing of another make
\* (loose files, archive, metadata row) changes, and the catalog is never
\* read; without it the makes of the catalog are taken one at a time in list
\* order, each step writing only for the make in hand; the run ends only
\* when the selected make, or every make of the catalog, has been attempted.
C17_SingleMakeSelection ==
    /\ [](truthy(arg_make) => (makes = << >> /\ attempted \in {<< >>, <<arg_make>>}))
    /\ [](~truthy(arg_make) =>
              /\ Len(attempted) <= Len(makes)
              /\ attempted = SubSeq(makes, 1, Len(attempted))
              /\ (tpc \in {"train", "save_params", "dump", "zip", "remove", "made"}
                     => Len(attempted) = idx))
    /\ [][\A m \in Makes :
             (\/ files'[m] # files[m]
              \/ archive'[m] # archive[m]
              \/ RowsOf(prediction_models', m) # RowsOf(prediction_models, m))
                 => m = (IF truthy(arg_make) THEN arg_make ELSE makes[idx])]_vars
    /\ [](truthy(arg_make) /\ tpc = "exit" => attempted = <<arg_make>>)
    /\ [](~truthy(arg_make) /\ tpc = "exit" => Len(attempted) = Len(makes))
    /\ [](tpc \in {"fetch", "train", "save_params", "dump", "zip", "remove", "made"}
              => ENABLED (NextTrain /\ idx' >= idx /\ makes' = makes))

C17_Witness ==
    /\ arg_make = "Ferrari"
    /\ tpc = "exit"
    /\ attempted = <<"Ferrari">>
    /\ archive["Ferrari"] = Pkls
    /\ RowsOf(prediction_models, "Ferrari") # {}
    /\ RowsOf(prediction_models, FirstMake) # {}

\* C18: monotonic_cst has one entry per column of the matrix the regressor
\* is fitted on, -1 at the position of mileage and 0 everywhere else, so
\* every regressor the fit can return predicts a price that does not rise
\* with the mileage, the other columns held fixed.
NeverRisesAlong ==
    [i \in 1..Len(monotonic_cst) |-> \A g \in car_model_rf[i] : NonIncreasing(g)]

C18_ConstraintOnMileage ==
    X_cols # << >> =>
        /\ Len(monotonic_cst) = Len(X_cols)
        /\ \A i \in 1..Len(X_cols) :
              monotonic_cst[i] = (IF X_cols[i] = "mileage" THEN -1 ELSE 0)
        /\ \E i \in 1..Len(X_cols) : X_cols[i] = "mileage"
        /\ \A i \in 1..Len(X_cols) :
              X_cols[i] = "mileage" => NeverRisesAlong[i]

C18_Witness ==
    /\ tpc \in {"save_params", "dump"}
    /\ X_cols # << >>
    /\ X_cols[3] = "mileage"
    /\ score > 0

\* C19: the cache entry of a make is added or changed only by the store of
\* a request for that make, and never removed; a request that finds its make
\* Loaded goes to the reads and starts no download; the reads leave the
\* cache and the storage as they are.
EntryChanged(m) ==
    \/ (m \in DOMAIN models_cache) # (m \in DOMAIN models_cache')
    \/ /\ m \in DOMAIN models_cache
       /\ m \in DOMAIN models_cache'
       /\ models_cache'[m] # models_cache[m]

Reads == {"get_model", "get_color", "get_lmodel", "get_trans"}

C19_OtherMakesUntouched ==
    [][/\ \A m \in Makes :
             EntryChanged(m) =>
                 /\ m \in DOMAIN models_cache'
                 /\ \E t \in Threads :
                        pc[t] = "store" /\ pc'[t] = "isnone" /\ req[t].make = m
       /\ \A t \in Threads :
             (pc[t] = "check" /\ pc'[t] # "check" /\ IsLoaded(req[t].make))
                 => pc'[t] = "get_model"
       /\ \A t \in Threads :
             (pc[t] \in Reads /\ pc'[t] # pc[t])
                 => (models_cache' = models_cache /\ storage' = storage)]_vars

C19_Witness ==
    /\ \A m \in Makes : IsLoaded(m)
    /\ \E t, u \in Threads :
          /\ req[t].make # req[u].make
          /\ pc[t] \in Reads
          /\ pc[u] = "done"
          /\ resp[u].status = 200

\* C20: a handler that has finished holds exactly one response, either 200
\* with a prediction and no error, or 400 or 500 with an error message; a
\* handler still running has sent nothing.
C20_AlwaysOneJsonResponse ==
    \A t \in Threads :
        /\ pc[t] = "done" =>
              \/ resp[t] = Prediction(resp[t].prediction)
              \/ resp[t].status \in {400, 500} /\ resp[t].error # None /\ resp[t].prediction = 0
        /\ pc[t] # "done" => resp[t] = NoResponse

C20_Witness ==
    \E t, u \in Threads :
        /\ pc[t] = "done" /\ resp[t] = PredictionError("ValueError")
        /\ pc[u] = "done" /\ resp[u] = PredictionError("AttributeError")

\* C21: in train-model.py the metadata write is attempted before anything of
\* the bundle is written, and its failure is swallowed: the step after
\* save_model_params is save_model whether or not the write succeeded.
MetadataAttemptedFirst ==
    (/\ script = "train-model"
     /\ \/ tpc \in {"dump", "zip", "remove"}
        \/ wrote \cap {"pkl", "zip", "zip_partial"} # {})
        => wrote \cap {"params", "params_error"} # {}

MetadataFailureSwallowed ==
    tpc = "save_params" => (tpc' = "dump" /\ outcome' = outcome)

MetadataRow == [make |-> make, score |-> score, params |-> params]

\* C21 (as stated): every failure of save_model after a successful metadata
\* write leaves the make's metadata record and no bundle of that run.
C21_FailureLeavesNoBundle ==
    /\ [] MetadataAttemptedFirst
    /\ [][MetadataFailureSwallowed]_vars
    /\ [](tpc = "made" /\ outcome = Error("save_model") /\ "params" \in wrote =>
              /\ MetadataRow \in prediction_models
              /\ "zip" \notin wrote)

\* C21 (amended): the metadata record of the run stays whatever happens in
\* save_model; the archive is touched only by the zip step, so a failure
\* before it leaves the archive as it was and a failure in it leaves at most
\* an incomplete one, while a failure during the removal of the loose files
\* leaves the record together with the complete archive of this run.
C21_MetadataBeforeBundle ==
    /\ [] MetadataAttemptedFirst
    /\ [][MetadataFailureSwallowed]_vars
    /\ [][\A m \in Makes : archive'[m] # archive[m] => (tpc = "zip" /\ m = make)]_vars
    /\ [](tpc = "made" /\ outcome = Error("save_model") /\ "params" \in wrote =>
              /\ MetadataRow \in prediction_models
              /\ ("zip_partial" \in wrote => ("zip" \notin wrote /\ "model.zip" \in files[make]))
              /\ ("zip" \in wrote => ("model.zip" \in files[make] /\ archive[make] = Pkls)))

C21_Witness ==
    /\ script = "train-model"
    /\ tpc = "made"
    /\ outcome = Error("save_model")
    /\ "params" \in wrote
    /\ "zip" \notin wrote
    /\ MetadataRow \in prediction_models
    /\ "model.zip" \notin files[make]

====
